---- MODULE Spec2Model ----
(***************************************************************************)
(* Model of the subtitle chunking core of auto-youtube-shorts:             *)
(* secondsToSRT, chunkSentence, chunkText and generateSubtitleFile.        *)
(*                                                                         *)
(* Strings are sequences of one-character strings, indexed from 0 as in    *)
(* the source (position p of the source is element p + 1 of the sequence). *)
(* Times are whole milliseconds; the model's Word times are multiples of   *)
(* 100 ms, i.e. the doubles 0.1 * k the transcript holds.                  *)
(***************************************************************************)
EXTENDS Integers, Sequences, FiniteSets, TLC

VARIABLES text, words, tz, pc, sentences, result, calls, file, srtIn, srtOut

vars == <<text, words, tz, pc, sentences, result, calls, file, srtIn, srtOut>>

(* ------------------------------------------------------------------ *)
(* Bounds                                                              *)
(* ------------------------------------------------------------------ *)

\* Largest number of tokens in a generated narration text.
MaxTokens == 3

(* ------------------------------------------------------------------ *)
(* Program constants                                                   *)
(* ------------------------------------------------------------------ *)

\* `index + word.length - chunkStartIndex > 30`
MaxChunkLength == 30

\* `chunkEndTime - chunkStartTime < 0.5`, in milliseconds
MinDuration == 500

\* Europe/Berlin is UTC+1 on 1 January 1970 (minutes east of UTC)
BerlinOffset == 60

(* ------------------------------------------------------------------ *)
(* Strings                                                             *)
(* ------------------------------------------------------------------ *)

Min(a, b) == IF a < b THEN a ELSE b

\* The characters \s and trim() take for whitespace (ECMAScript WhiteSpace
\* and LineTerminator) among those a string of this module can hold: TAB, LF,
\* VT, FF, CR, SPACE, NO-BREAK SPACE (U+00A0), OGHAM SPACE MARK (U+1680) and
\* ZERO WIDTH NO-BREAK SPACE (U+FEFF). The others (U+2000..U+200A, U+2028,
\* U+2029, U+202F, U+205F, U+3000) cannot be written in a string here, so no
\* text of the model contains them.
Whitespace == {"\t", "\n", "", "\f", "\r", " ", " ", " ", "﻿"}

Terminators == {".", "!", "?"}

\* String.prototype.slice(a, b) for 0 <= a, b
Slice(s, a, b) == SubSeq(s, a + 1, Min(b, Len(s)))

\* String.prototype.slice(a)
SliceFrom(s, a) == SubSeq(s, a + 1, Len(s))

\* w occurs in s at source position p
OccursAt(s, w, p) ==
    /\ p >= 0
    /\ p + Len(w) <= Len(s)
    /\ \A k \in 1..Len(w) : s[p + k] = w[k]

\* String.prototype.indexOf(w, from): the first position >= from at which w
\* occurs, -1 if there is none
IndexOf(s, w, from) ==
    LET hits == {p \in Min(from, Len(s))..Len(s) : OccursAt(s, w, p)}
    IN  IF hits = {} THEN -1
        ELSE CHOOSE p \in hits : \A q \in hits : p <= q

\* String.prototype.trim() !== ""
NonBlank(s) == \E k \in 1..Len(s) : s[k] \notin Whitespace

\* Length of the run of whitespace of s that starts at position p
RECURSIVE WsRun(_, _)
WsRun(s, p) ==
    IF p < Len(s) /\ s[p + 1] \in Whitespace THEN 1 + WsRun(s, p + 1) ELSE 0

\* /\s*[.!?]\s*/ matches at position p: returns the end of the match, -1 if none
MatchAt(s, p) ==
    LET q == p + WsRun(s, p)
    IN  IF q < Len(s) /\ s[q + 1] \in Terminators
        THEN q + 1 + WsRun(s, q + 1)
        ELSE -1

\* String.prototype.split(/\s*[.!?]\s*/): pieces of s from position `from`,
\* scanning for the leftmost match from position p
RECURSIVE SplitFrom(_, _, _)
SplitFrom(s, from, p) ==
    IF p >= Len(s) THEN <<Slice(s, from, Len(s))>>
    ELSE LET e == MatchAt(s, p)
         IN  IF e < 0 THEN SplitFrom(s, from, p + 1)
             ELSE <<Slice(s, from, p)>> \o SplitFrom(s, e, e)

Split(s) == SplitFrom(s, 0, 0)

\* Array.prototype.filter
RECURSIVE FilterNonBlank(_)
FilterNonBlank(ss) ==
    IF ss = <<>> THEN <<>>
    ELSE (IF NonBlank(Head(ss)) THEN <<Head(ss)>> ELSE <<>>)
         \o FilterNonBlank(Tail(ss))

\* the sentences of chunkText
Sentences(t) == FilterNonBlank(Split(t))

(* ------------------------------------------------------------------ *)
(* secondsToSRT                                                        *)
(* ------------------------------------------------------------------ *)

DigitChars == <<"0", "1", "2", "3", "4", "5", "6", "7", "8", "9">>

Digit(n) == DigitChars[n + 1]

\* "2-digit"
Pad2(n) == <<Digit((n \div 10) % 10), Digit(n % 10)>>

\* fractionalSecondDigits: 3
Pad3(n) == <<Digit((n \div 100) % 10), Digit((n \div 10) % 10), Digit(n % 10)>>

\* String(n) for n >= 0
RECURSIVE Decimal(_)
Decimal(n) == IF n < 10 THEN <<Digit(n)>> ELSE Decimal(n \div 10) \o <<Digit(n % 10)>>

\* new Date(1970, 0, 1, 0, 0, Math.floor(seconds), Math.round((seconds % 1) * 1000)):
\* the fields are read as LOCAL time of the process, whose zone is `zone`
\* minutes east of UTC; the value is the instant in ms since the epoch.
\* `ms` is the offset in whole milliseconds (seconds = ms / 1000).
LocalDate(ms, zone) == ((ms \div 1000) * 1000 + (ms % 1000)) - zone * 60000

\* The decimal separator the "de" locale puts before the fractional seconds
FractionSeparator == ","

\* formatterTime.format(date): wall-clock time of the instant in Europe/Berlin,
\* "de" locale, 2-digit hour/minute/second and 3 fractional digits
FormatBerlin(instant) ==
    LET wall == (instant + BerlinOffset * 60000) % 86400000
        hh == wall \div 3600000
        mm == (wall \div 60000) % 60
        ss == (wall \div 1000) % 60
        fff == wall % 1000
    IN  Pad2(hh) \o <<":">> \o Pad2(mm) \o <<":">> \o Pad2(ss)
        \o <<FractionSeparator>> \o Pad3(fff)

secondsToSRT(ms, zone) == FormatBerlin(LocalDate(ms, zone))

(* ------------------------------------------------------------------ *)
(* chunkSentence                                                       *)
(* ------------------------------------------------------------------ *)

\* 2^k
RECURSIVE Pow2(_)
Pow2(k) == IF k <= 0 THEN 1 ELSE 2 * Pow2(k - 1)

\* 2^k modulo 1000
RECURSIVE Pow2Mod1000(_)
Pow2Mod1000(k) == IF k <= 0 THEN 1 ELSE (2 * Pow2Mod1000(k - 1)) % 1000

\* The binary exponent E of n / 1000 for n >= 1000: 2^E <= n / 1000 < 2^(E + 1)
RECURSIVE ExponentUp(_, _)
ExponentUp(n, k) == IF n \div Pow2(k + 1) >= 1000 THEN ExponentUp(n, k + 1) ELSE k

\* The same for 0 < n < 1000, as -E
RECURSIVE ExponentDown(_, _)
ExponentDown(n, j) == IF n * Pow2(j) >= 1000 THEN j ELSE ExponentDown(n, j + 1)

\* The double nearest to n / 1000 (n > 0 whole milliseconds) is m / 2^Scale(n)
\* with 2^52 <= m < 2^53
Scale(n) == IF n >= 1000 THEN 52 - ExponentUp(n, 0) ELSE 52 + ExponentDown(n, 1)

\* The rounding error of that double: it is n / 1000 + Delta(n) / (1000 * 2^Scale(n)).
\* (n * 2^Scale(n) is never half-way between two multiples of 1000.)
Delta(n) ==
    IF n = 0 THEN 0
    ELSE LET r == ((n % 1000) * Pow2Mod1000(Scale(n))) % 1000
         IN  IF r = 0 THEN 0 ELSE IF r < 500 THEN 0 - r ELSE 1000 - r

\* `chunkEndTime - chunkStartTime < 0.5` on the doubles nearest to startT / 1000
\* and endT / 1000, for whole milliseconds 0 <= startT, endT: the difference of
\* the two doubles, rounded to a double, is below 0.5 exactly when the
\* unrounded difference is below 0.5 - 2^-55. When the times are 500 ms apart
\* that depends on the two rounding errors: 0.7 - 0.2 = 0.49999999999999994.
BelowHalfSecond(startT, endT) ==
    IF endT - startT # MinDuration THEN endT - startT < MinDuration
    ELSE LET pa == Scale(endT)
             pb == IF startT = 0 THEN pa ELSE Scale(startT)
             N == Delta(endT) * Pow2(pb - pa) - Delta(startT)
         IN  IF pb >= 55 THEN N < 0 - 1000 * Pow2(pb - 55)
             ELSE N < 0 /\ (55 - pb >= 10 \/ (0 - N) * Pow2(55 - pb) > 1000)

\* `words[0].start`: a TypeError when words is empty
FirstStart(ws) ==
    IF Len(ws) = 0 THEN [threw |-> TRUE, start |-> 0]
    ELSE [threw |-> FALSE, start |-> ws[1].start]

\* LoopStep with the two time assignments of a new chunk exchanged
\* (chunkStartTime = end; chunkEndTime = start)
LoopStepSwapped(st, sentence, w, index) ==
    IF index + Len(w.word) - st.chunkStartIndex > MaxChunkLength
    THEN [st EXCEPT
            !.chunks = Append(@, [text |-> Slice(sentence, st.chunkStartIndex, st.chunkEndIndex),
                                  start |-> st.chunkStartTime,
                                  end |-> st.chunkEndTime]),
            !.chunkStartIndex = index,
            !.chunkEndIndex = index,
            !.chunkStartTime = w.end,
            !.chunkEndTime = w.start,
            !.i = @ + 1,
            !.bind = Append(@, index),
            !.owners = Append(@, [ws |-> st.cur, merged |-> FALSE]),
            !.cur = {st.i + 1}]
    ELSE [st EXCEPT
            !.chunkEndIndex = index + Len(w.word),
            !.chunkEndTime = w.end,
            !.i = @ + 1,
            !.bind = Append(@, index),
            !.cur = @ \cup {st.i + 1}]

\* The body of the for loop for the Word w = words[st.i], found at `index`.
\* bind, owners and cur are history: the position each matched Word was
\* bound to, the Words (by position in words, from 1) matched into each
\* emitted chunk (and whether a trailing span was merged into it), and the
\* Words matched into the current span.
LoopStep(st, sentence, w, index) ==
    IF index + Len(w.word) - st.chunkStartIndex > MaxChunkLength
    THEN [st EXCEPT
            !.chunks = Append(@, [text |-> Slice(sentence, st.chunkStartIndex, st.chunkEndIndex),
                                  start |-> st.chunkStartTime,
                                  end |-> st.chunkEndTime]),
            !.chunkStartIndex = index,
            !.chunkEndIndex = index,
            !.chunkStartTime = w.start,
            !.chunkEndTime = w.end,
            !.i = @ + 1,
            !.bind = Append(@, index),
            !.owners = Append(@, [ws |-> st.cur, merged |-> FALSE]),
            !.cur = {st.i + 1}]
    ELSE [st EXCEPT
            !.chunkEndIndex = index + Len(w.word),
            !.chunkEndTime = w.end,
            !.i = @ + 1,
            !.bind = Append(@, index),
            !.cur = @ \cup {st.i + 1}]

\* for (i = 0; i < words.length; i++) { ... if (index < 0) break; ... }
RECURSIVE Loop(_, _, _)
Loop(st, sentence, ws) ==
    IF st.i >= Len(ws) THEN st
    ELSE LET w == ws[st.i + 1]
             index == IndexOf(sentence, w.word, st.chunkEndIndex)
         IN  IF index < 0 THEN st
             ELSE Loop(LoopStep(st, sentence, w, index), sentence, ws)

\* RemainingWords dropping the unmatched Word as well: words.slice(i + 1)
RemainingWordsSkip(ws, i) == SubSeq(ws, i + 2, Len(ws))

\* words.slice(i)
RemainingWords(ws, i) == SubSeq(ws, i + 1, Len(ws))

\* The merge-or-push after the loop and the return value.
FinalSpan(st, sentence, ws) ==
    IF BelowHalfSecond(st.chunkStartTime, st.chunkEndTime)
    THEN IF Len(st.chunks) = 0
         THEN \* chunks[-1] is undefined: TypeError
              [threw |-> TRUE, chunks |-> <<>>, remainingWords |-> <<>>,
               bind |-> st.bind, owners |-> <<>>, cursor |-> st.chunkEndIndex,
               matched |-> st.i]
         ELSE [threw |-> FALSE,
               chunks |-> [st.chunks EXCEPT ![Len(st.chunks)].text =
                              @ \o <<" ">> \o SliceFrom(sentence, st.chunkStartIndex)],
               remainingWords |-> RemainingWords(ws, st.i),
               bind |-> st.bind,
               owners |-> [st.owners EXCEPT ![Len(st.owners)] =
                              [ws |-> @.ws \cup st.cur, merged |-> TRUE]],
               cursor |-> st.chunkEndIndex,
               matched |-> st.i]
    ELSE [threw |-> FALSE,
          chunks |-> Append(st.chunks, [text |-> SliceFrom(sentence, st.chunkStartIndex),
                                        start |-> st.chunkStartTime,
                                        end |-> st.chunkEndTime]),
          remainingWords |-> RemainingWords(ws, st.i),
          bind |-> st.bind,
          owners |-> Append(st.owners, [ws |-> st.cur, merged |-> FALSE]),
          cursor |-> st.chunkEndIndex,
          matched |-> st.i]

chunkSentence(sentence, ws) ==
    LET first == FirstStart(ws)
    IN  IF first.threw
        THEN [threw |-> TRUE, chunks |-> <<>>, remainingWords |-> <<>>,
              bind |-> <<>>, owners |-> <<>>, cursor |-> 0, matched |-> 0]
        ELSE FinalSpan(Loop([chunks |-> <<>>,
                             chunkStartIndex |-> 0,
                             chunkEndIndex |-> 0,
                             chunkStartTime |-> first.start,
                             chunkEndTime |-> first.start,
                             i |-> 0,
                             bind |-> <<>>,
                             owners |-> <<>>,
                             cur |-> {}],
                            sentence, ws),
                       sentence, ws)

(* ------------------------------------------------------------------ *)
(* Inputs                                                              *)
(* ------------------------------------------------------------------ *)

\* occurs inside "extraordinarily" (at 8) and "incomprehensible" (at 0)
In == <<"i", "n">>

Extraordinarily ==
    <<"e", "x", "t", "r", "a", "o", "r", "d", "i", "n", "a", "r", "i", "l", "y">>

Incomprehensible ==
    <<"i", "n", "c", "o", "m", "p", "r", "e", "h", "e", "n", "s", "i", "b", "l", "e">>

\* A single Word of 31 characters
Dichlorodiphenyltrichloroethane ==
    <<"d", "i", "c", "h", "l", "o", "r", "o", "d", "i", "p", "h", "e", "n", "y", "l",
      "t", "r", "i", "c", "h", "l", "o", "r", "o", "e", "t", "h", "a", "n", "e">>

\* A transcribed token that is not in the narration
Misheard == <<"z", "z">>

Vocabulary == {In, Extraordinarily, Incomprehensible, Dichlorodiphenyltrichloroethane}

TokenSeqs == UNION {[1..n -> Vocabulary] : n \in 1..MaxTokens}

\* Word timings in ms: the start of the first Word, the distance between the
\* starts of consecutive Words and the duration of every Word. The Words are
\* back to back, or 100 ms apart, or overlap by 200 ms.
Timings ==
    {[t0 |-> 63, stride |-> 500, dur |-> 500],
     [t0 |-> 0, stride |-> 300, dur |-> 300],
     [t0 |-> 200, stride |-> 300, dur |-> 300],
     [t0 |-> 0, stride |-> 500, dur |-> 500],
     [t0 |-> 200, stride |-> 500, dur |-> 500],
     [t0 |-> 0, stride |-> 600, dur |-> 500],
     [t0 |-> 0, stride |-> 300, dur |-> 500]}

\* The zone of the process, minutes east of UTC on 1 January 1970
Zones == {0, 60}

\* The narration: the tokens separated by one space, with a sentence end
\* after token brk (none when brk = 0)
RECURSIVE MakeText(_, _, _)
MakeText(toks, brk, k) ==
    IF k > Len(toks) THEN <<>>
    ELSE toks[k]
         \o (IF k = brk THEN <<".">> ELSE <<>>)
         \o (IF k < Len(toks) THEN <<" ">> ELSE <<>>)
         \o MakeText(toks, brk, k + 1)

\* The transcript: one Word per token, Word `bad` replaced by a token that is
\* not in the text (none when bad = 0), cut after `keep` Words
MakeWords(toks, bad, keep, tm) ==
    [k \in 1..keep |->
        [word |-> IF k = bad THEN Misheard ELSE toks[k],
         start |-> tm.t0 + (k - 1) * tm.stride,
         end |-> tm.t0 + (k - 1) * tm.stride + tm.dur]]

\* narration "Hello world. Goodbye now." with its four Words
ScenarioText ==
    <<"H", "e", "l", "l", "o", " ", "w", "o", "r", "l", "d", ".", " ",
      "G", "o", "o", "d", "b", "y", "e", " ", "n", "o", "w", ".">>

ScenarioWords ==
    << [word |-> <<"H", "e", "l", "l", "o">>, start |-> 0, end |-> 400],
       [word |-> <<"w", "o", "r", "l", "d">>, start |-> 400, end |-> 900],
       [word |-> <<"G", "o", "o", "d", "b", "y", "e">>, start |-> 1000, end |-> 1600],
       [word |-> <<"n", "o", "w">>, start |-> 1600, end |-> 1900] >>

Generated ==
    {[text |-> MakeText(toks, brk, 1),
      words |-> MakeWords(toks, dev[1], dev[2], tm)] :
        <<toks, brk, dev, tm>> \in
            {x \in TokenSeqs \X (0..MaxTokens) \X ((0..MaxTokens) \X (0..MaxTokens))
                   \X Timings :
                /\ x[2] <= Len(x[1])
                /\ x[3][2] <= Len(x[1])
                /\ x[3][1] <= x[3][2]
                /\ (x[3][1] # 0 => x[3][2] = Len(x[1]))}}

Inputs == Generated \cup {[text |-> ScenarioText, words |-> ScenarioWords]}

(* ------------------------------------------------------------------ *)
(* chunkText and generateSubtitleFile                                  *)
(* ------------------------------------------------------------------ *)

NoResult == [chunks |-> <<>>, remainingWords |-> <<>>, owners |-> <<>>]

Init ==
    /\ \E inp \in Inputs : text = inp.text /\ words = inp.words
    /\ tz \in Zones
    /\ pc = "start"
    /\ sentences = <<>>
    /\ result = NoResult
    /\ calls = <<>>
    /\ file = <<"none">>
    /\ srtIn = 0
    /\ srtOut = <<>>

\* chunkText: text.split(...).filter(...), and the initial value of reduce
SplitText ==
    /\ pc = "start"
    /\ sentences' = Sentences(text)
    /\ result' = [chunks |-> <<>>, remainingWords |-> words, owners |-> <<>>]
    /\ pc' = "reduce"
    /\ UNCHANGED <<text, words, tz, calls, file, srtIn, srtOut>>

\* Words consumed before the current sentence (history)
Consumed == Len(words) - Len(result.remainingWords)

Shift(owners, by) ==
    [k \in 1..Len(owners) |->
        [ws |-> {w + by : w \in owners[k].ws}, merged |-> owners[k].merged]]

\* chunkText: one call of the reduce callback, which returns normally
ReduceStep ==
    /\ pc = "reduce"
    /\ Len(calls) < Len(sentences)
    /\ LET sentence == sentences[Len(calls) + 1]
           r == chunkSentence(sentence, result.remainingWords)
       IN  /\ ~r.threw
           /\ result' = [chunks |-> result.chunks \o r.chunks,
                         remainingWords |-> r.remainingWords,
                         owners |-> result.owners \o Shift(r.owners, Consumed)]
           /\ calls' = Append(calls, [sentence |-> sentence,
                                      words |-> result.remainingWords,
                                      out |-> r])
           /\ pc' = "reduce"
    /\ UNCHANGED <<text, words, tz, sentences, file, srtIn, srtOut>>

\* ReduceThrow with the exception swallowed: the sentence is skipped and the
\* fold goes on
ReduceThrowSwallowed ==
    /\ pc = "reduce"
    /\ Len(calls) < Len(sentences)
    /\ LET sentence == sentences[Len(calls) + 1]
           r == chunkSentence(sentence, result.remainingWords)
       IN  /\ r.threw
           /\ calls' = Append(calls, [sentence |-> sentence,
                                      words |-> result.remainingWords,
                                      out |-> r])
           /\ result' = result
           /\ pc' = "reduce"
    /\ UNCHANGED <<text, words, tz, sentences, file, srtIn, srtOut>>

\* chunkText: a call of the reduce callback in which chunkSentence throws; the
\* exception leaves chunkText and rejects generateSubtitleFile's promise
ReduceThrow ==
    /\ pc = "reduce"
    /\ Len(calls) < Len(sentences)
    /\ LET sentence == sentences[Len(calls) + 1]
           r == chunkSentence(sentence, result.remainingWords)
       IN  /\ r.threw
           /\ calls' = Append(calls, [sentence |-> sentence,
                                      words |-> result.remainingWords,
                                      out |-> r])
           /\ result' = NoResult
           /\ pc' = "thrown"
    /\ UNCHANGED <<text, words, tz, sentences, file, srtIn, srtOut>>

\* `${index + 1}\n${secondsToSRT(start)} --> ${secondsToSRT(end)}\n${text}`
Block(chunk, index, zone) ==
    Decimal(index + 1) \o <<"\n">>
    \o secondsToSRT(chunk.start, zone) \o <<" ", "-", "-", ">", " ">>
    \o secondsToSRT(chunk.end, zone) \o <<"\n">> \o chunk.text

\* chunks.map(...).join("\n\n")
RECURSIVE Content(_, _, _)
Content(chunks, k, zone) ==
    IF k > Len(chunks) THEN <<>>
    ELSE Block(chunks[k], k - 1, zone)
         \o (IF k < Len(chunks) THEN <<"\n", "\n">> ELSE <<>>)
         \o Content(chunks, k + 1, zone)

\* generateSubtitleFile: chunkText has returned; write subtitles.srt
WriteFile ==
    /\ pc = "reduce"
    /\ Len(calls) = Len(sentences)
    /\ file' = <<"written", Content(result.chunks, 1, tz)>>
    /\ pc' = "done"
    /\ UNCHANGED <<text, words, tz, sentences, result, calls, srtIn, srtOut>>

\* the rejection reaches `.catch(console.error)` of the main routine
Catch ==
    /\ pc = "thrown"
    /\ pc' = "failed"
    /\ UNCHANGED <<text, words, tz, sentences, result, calls, file, srtIn, srtOut>>

Next == SplitText \/ ReduceStep \/ ReduceThrow \/ WriteFile \/ Catch

Spec == Init /\ [][Next]_vars

(* ------------------------------------------------------------------ *)
(* secondsToSRT on its own                                             *)
(* ------------------------------------------------------------------ *)

\* Offsets in whole milliseconds, 75.256 s among them
SRTInputs ==
    {h * 3600000 + m * 60000 + sec * 1000 + f :
        <<h, m, sec, f>> \in {0, 1, 23} \X {0, 1, 59} \X {0, 15, 59} \X {0, 256, 999}}

SRTZones == {-300, 0, 60, 540}

InitSRT ==
    /\ text = <<>>
    /\ words = <<>>
    /\ tz \in SRTZones
    /\ pc = "srt"
    /\ sentences = <<>>
    /\ result = NoResult
    /\ calls = <<>>
    /\ file = <<"none">>
    /\ srtIn \in SRTInputs
    /\ srtOut = <<>>

\* one call secondsToSRT(srtIn / 1000)
FormatTime ==
    /\ pc = "srt"
    /\ srtOut' = secondsToSRT(srtIn, tz)
    /\ pc' = "srtDone"
    /\ UNCHANGED <<text, words, tz, sentences, result, calls, file, srtIn>>

NextSRT == FormatTime

SpecSRT == InitSRT /\ [][NextSRT]_vars

(* ------------------------------------------------------------------ *)
(* Properties                                                          *)
(* ------------------------------------------------------------------ *)

Returned == pc = "done"

Failed == pc \in {"thrown", "failed"}

IsInk(ch) == ch \notin Whitespace

\* s without its whitespace
Squeeze(s) == SelectSeq(s, IsInk)

RECURSIVE ConcatTexts(_)
ConcatTexts(chunks) ==
    IF chunks = <<>> THEN <<>> ELSE Head(chunks).text \o ConcatTexts(Tail(chunks))

RECURSIVE ConcatWords(_)
ConcatWords(ws) ==
    IF ws = <<>> THEN <<>> ELSE Head(ws).word \o ConcatWords(Tail(ws))

SetMin(S) == CHOOSE x \in S : \A y \in S : x <= y

SetMax(S) == CHOOSE x \in S : \A y \in S : x >= y

\* The whitespace-separated tokens of s
RECURSIVE TokensFrom(_, _, _)
TokensFrom(s, p, cur) ==
    IF p > Len(s) THEN (IF cur = <<>> THEN <<>> ELSE <<cur>>)
    ELSE IF s[p] \in Whitespace
         THEN (IF cur = <<>> THEN <<>> ELSE <<cur>>) \o TokensFrom(s, p + 1, <<>>)
         ELSE TokensFrom(s, p + 1, Append(cur, s[p]))

Tokens(s) == TokensFrom(s, 1, <<>>)

RECURSIVE AllTokens(_)
AllTokens(sents) ==
    IF sents = <<>> THEN <<>> ELSE Tokens(Head(sents)) \o AllTokens(Tail(sents))

\* One cue per sentence: its text, the start of its first Word and the end
\* of its last, the Words taken in order
RECURSIVE CuePerSentence(_, _)
CuePerSentence(sents, ws) ==
    IF sents = <<>> THEN <<>>
    ELSE LET n == Len(Tokens(Head(sents)))
         IN  <<[text |-> Head(sents), start |-> ws[1].start, end |-> ws[n].end]>>
             \o CuePerSentence(Tail(sents), SubSeq(ws, n + 1, Len(ws)))

\* C1: chunkSentence on a non-empty Word sequence returns normally with at
\* least one span; a short final span with no earlier span is kept, and when
\* the first Word does not match, the one span is the whole sentence with
\* start = end = words[0].start.
C1_NonEmptyWordsReturnSpan ==
    \A k \in 1..Len(calls) :
        LET c == calls[k]
        IN  c.words # <<>> =>
                /\ ~c.out.threw
                /\ Len(c.out.chunks) >= 1
                /\ (c.out.matched = 0 =>
                        c.out.chunks = <<[text |-> c.sentence,
                                          start |-> c.words[1].start,
                                          end |-> c.words[1].start]>>)

\* The Word texts, concatenated, are the narration up to whitespace
CompleteTranscript == text # <<>> /\ Squeeze(ConcatWords(words)) = Squeeze(text)

\* C2: for a complete transcript of a non-empty narration, the cue texts
\* returned by chunkText, concatenated and without whitespace, are the
\* narration without whitespace (no Word being left over).
C2_CuesReproduceText ==
    (Returned /\ CompleteTranscript /\ result.remainingWords = <<>>)
        => Squeeze(ConcatTexts(result.chunks)) = Squeeze(text)

\* C3: every returned cue that was not formed by merging a short trailing
\* span into the previous span has at most 30 characters of text.
C3_UnmergedCueAtMost30 ==
    Returned =>
        \A k \in 1..Len(result.chunks) :
            ~result.owners[k].merged => Len(result.chunks[k].text) <= MaxChunkLength

\* C4: every returned cue starts at the start of the first Word that
\* contributed to it and ends at the end of the last Word that contributed
\* to it (merged trailing span included), and no Word contributes to two cues.
C4_CueTimesOfContributingWords ==
    Returned =>
        /\ \A k \in 1..Len(result.chunks) :
              LET ws == result.owners[k].ws
              IN  ws # {} =>
                      /\ result.chunks[k].start = words[SetMin(ws)].start
                      /\ result.chunks[k].end = words[SetMax(ws)].end
        /\ \A j, k \in 1..Len(result.chunks) :
              j # k => result.owners[j].ws \cap result.owners[k].ws = {}

\* Every Word has start <= end and Word starts are non-decreasing
WellTimed(ws) ==
    /\ \A k \in 1..Len(ws) : ws[k].start <= ws[k].end
    /\ \A k \in 1..(Len(ws) - 1) : ws[k].start <= ws[k + 1].start

\* C5: for well-timed Words, every cue produced so far has start <= end and
\* consecutive cues have non-decreasing starts, within a sentence and across
\* sentences.
C5_CuesOrdered ==
    WellTimed(words) =>
        /\ \A k \in 1..Len(result.chunks) :
              result.chunks[k].start <= result.chunks[k].end
        /\ \A k \in 1..(Len(result.chunks) - 1) :
              result.chunks[k].start <= result.chunks[k + 1].start

\* C5 witness: a returned list whose first sentence gave two cues and whose
\* second sentence gave another, with increasing starts
C5_Witness ==
    /\ Returned
    /\ WellTimed(words)
    /\ Len(calls) = 2
    /\ Len(calls[1].out.chunks) = 2
    /\ Len(result.chunks) >= 3
    /\ result.chunks[1].start < result.chunks[2].start
    /\ result.chunks[2].start < result.chunks[3].start

\* HH:MM:SS.mmm computed from the offset alone
DurationStamp(ms) ==
    LET whole == ms \div 1000
    IN  Pad2(whole \div 3600) \o <<":">> \o Pad2((whole \div 60) % 60) \o <<":">>
        \o Pad2(whole % 60) \o <<".">> \o Pad3(ms % 1000)

\* C6: secondsToSRT(s) is HH:MM:SS.mmm of the offset s, whatever the zone of
\* the process; secondsToSRT(75.256) = "00:01:15.256".
C6_StampFromOffsetAlone ==
    pc = "srtDone" => srtOut = DurationStamp(srtIn)

\* C7: within one call of chunkSentence each matched Word is bound at or
\* after the end of the occurrence bound to the Word matched before it.
C7_BindingsDoNotOverlap ==
    \A k \in 1..Len(calls) :
        LET c == calls[k]
        IN  \A j \in 1..(Len(c.out.bind) - 1) :
                c.out.bind[j + 1] >= c.out.bind[j] + Len(c.words[j].word)

\* C8: once chunkSentence has been called with no Words, the run has failed:
\* that call threw, chunkText returned no cue list and no file was written.
C8_EmptyWordsFatal ==
    (\E k \in 1..Len(calls) : calls[k].words = <<>>) =>
        /\ calls[Len(calls)].words = <<>>
        /\ calls[Len(calls)].out.threw
        /\ calls[Len(calls)].out.chunks = <<>>
        /\ Failed
        /\ result.chunks = <<>>
        /\ file = <<"none">>

\* C8 witness: the Words ran out before the last sentence and the failure
\* reached the top level
C8_Witness ==
    /\ pc = "failed"
    /\ words # <<>>
    /\ Len(calls) >= 2
    /\ calls[Len(calls)].words = <<>>

\* Sentences of at most 30 characters, the Words exactly their tokens, each
\* sentence lasting at least 0.5 s
ShortSentencesExactWords ==
    LET sents == Sentences(text)
        cues == CuePerSentence(sents, words)
    IN  /\ sents # <<>>
        /\ \A k \in 1..Len(sents) : Len(sents[k]) <= MaxChunkLength
        /\ AllTokens(sents) = [k \in 1..Len(words) |-> words[k].word]
        /\ \A k \in 1..Len(cues) : cues[k].end - cues[k].start >= MinDuration

\* C9: when every sentence has at most 30 characters, the Words are exactly
\* the sentences' words and every sentence lasts at least 0.5 s, chunkText
\* returns exactly one cue per sentence (its text, the start of its first
\* Word, the end of its last) and an empty remainder.
C9_OneCuePerSentence ==
    ShortSentencesExactWords =>
        /\ ~Failed
        /\ (Returned =>
                /\ result.chunks = CuePerSentence(Sentences(text), words)
                /\ result.remainingWords = <<>>)

\* C10: a call of chunkSentence that returns has consumed a prefix of its
\* Words and returns the rest, which starts with the first Word not found in
\* the sentence from the cursor; each call gets the remainder of the call
\* before it (the first one the caller's Words), and chunkText's accumulator
\* holds the last remainder.
C10_RemainderIsSuffix ==
    /\ \A k \in 1..Len(calls) :
          LET c == calls[k]
              m == c.out.matched
          IN  /\ c.words = IF k = 1 THEN words ELSE calls[k - 1].out.remainingWords
              /\ ~c.out.threw =>
                    /\ m \in 0..Len(c.words)
                    /\ c.out.remainingWords = [j \in 1..(Len(c.words) - m) |-> c.words[m + j]]
                    /\ Len(c.out.bind) = m
                    /\ \A j \in 1..m : OccursAt(c.sentence, c.words[j].word, c.out.bind[j])
                    /\ (m < Len(c.words) =>
                          ~\E p \in c.out.cursor..Len(c.sentence) :
                              OccursAt(c.sentence, c.words[m + 1].word, p))
    /\ (pc \in {"reduce", "done"} =>
          result.remainingWords =
              IF calls = <<>> THEN words ELSE calls[Len(calls)].out.remainingWords)

\* C10 witness: the first sentence consumed some but not all Words and handed
\* a remainder beginning with an unmatched Word to the second sentence
C10_Witness ==
    /\ Len(calls) >= 2
    /\ ~calls[1].out.threw
    /\ calls[1].out.matched > 0
    /\ calls[1].out.remainingWords # <<>>
    /\ calls[2].words = calls[1].out.remainingWords
    /\ calls[2].out.matched > 0

====
